---- MODULE Spec2Model ----
(***************************************************************************)
(* scripts/create_data.py of roar-firekit: the generator of the mock       *)
(* admin / assessment databases.  The script is one linear pass; the model *)
(* follows it loop by loop, one action per loop iteration, and draws every *)
(* random.* call with \E.                                                  *)
(*                                                                         *)
(* Ids.  random_doc_id() and randomAlphaNumericString(16) are modelled as  *)
(* a counter (nextId) that never hands out the same value twice.  A Python *)
(* dict is a function; the script only ever inserts freshly drawn keys, so *)
(* insertion order, the order Python iterates a dict in, is ascending key  *)
(* order here (KeysOf).                                                    *)
(*                                                                         *)
(* Left out: the fields that hold no reference and that no loop reads      *)
(* (names, dates, ell, studies, permissions, blocks of a variant).         *)
(***************************************************************************)
EXTENDS Integers, Sequences, FiniteSets, TLC

VARIABLES
    pc,                  \* position in the script
    nextId,              \* the next fresh random id
    i, j, n,             \* outer loop position, inner loop position, inner loop length
    gse_tasks,           \* task -> keys of its "variants" sub-collection
    gse_variants,        \* task -> list of variant ids
    districts, schools, classes, prevClasses,
    educators, students, admins, caregivers, users,
    classes_by_school, student_by_classes, educators_by_school,
    school,              \* loop variable of lines 404 and 472, read again at line 442
    finishedClasses,     \* local of the class loop (line 428), read again at line 447
    gse_users,           \* engine-side user records, with their runs
    administrations, user_admins,
    group_keys, group_size,   \* randomGroup: the shuffled keys and the chunk size
    group, admin_id, admin_runIds, admin_trials, assessments,
    admin_schools, admin_districts, admin_grades, admin_users,
    heap,                \* the assessment dicts made by create_assessment, by address
    sel_length, sel_options, sel_result   \* a call of arrayOfNumberSelection on its own

vars == <<pc, nextId, i, j, n, gse_tasks, gse_variants, districts, schools, classes,
          prevClasses, educators, students, admins, caregivers, users,
          classes_by_school, student_by_classes, educators_by_school, school,
          finishedClasses, gse_users, administrations, user_admins, group_keys,
          group_size, group, admin_id, admin_runIds, admin_trials, assessments,
          admin_schools, admin_districts, admin_grades, admin_users, heap,
          sel_length, sel_options, sel_result>>

hierarchyVars == <<districts, schools, classes, prevClasses, educators, students,
                   classes_by_school, student_by_classes, educators_by_school,
                   school, finishedClasses>>
catalogVars == <<gse_tasks, gse_variants>>
peopleVars == <<admins, caregivers>>
groupVars == <<group_keys, group_size>>
adminLocalVars == <<group, admin_id, admin_runIds, admin_trials, assessments,
                    admin_schools, admin_districts, admin_grades, admin_users>>
adminOutVars == <<administrations, user_admins, heap>>
selVars == <<sel_length, sel_options, sel_result>>

-----------------------------------------------------------------------------
(* Sizes of the generated universe.  The script's own values are 3 / 3 / 2 / 1
   (lines 322-328), which make 9 schools and 90 classes; the model runs the
   same loops on a smaller universe. *)
NUM_DISTRICTS == 1
NUM_SCHOOLS_PER_LOW == 2
NUM_SCHOOLS_PER_HIGH == 2
NUM_EDUCATORS_PER_LOW == 1
NUM_EDUCATORS_PER_HIGH == 1
NUM_STUDENTS_PER_LOW == 1
NUM_STUDENTS_PER_HIGH == 1

(* Ranges of the random.randint calls written as literals in the script; the
   comment gives the script's range.  Every draw multiplies the states, so the
   ranges are narrowed to the values that make the cases of interest happen:
   two variants to choose from, two previous schools of one district, two
   grades, a group of two classes followed by a shorter one. *)
VARIANTS_LOW == 2             \* line 371: randint(1, 3)
VARIANTS_HIGH == 2
EDU_PREV_SCHOOLS_LOW == 2     \* line 412: randint(0, 3)
EDU_PREV_SCHOOLS_HIGH == 2
EDU_PREV_CLASSES_LOW == 2     \* line 189: randint(2, 6)
EDU_PREV_CLASSES_HIGH == 2
STU_PREV_SCHOOLS_LOW == 2     \* line 446: randint(0, 3)
STU_PREV_SCHOOLS_HIGH == 2
STU_PREV_CLASSES_LOW == 2     \* line 447: randint(1, 3)
STU_PREV_CLASSES_HIGH == 2
GRADE_LOW == 0                \* line 234: randint(0, 12)
GRADE_HIGH == 1
GROUP_SIZE_LOW == 2           \* line 500: randint(5, 10)
GROUP_SIZE_HIGH == 3

(* Loop lengths written as literals in the script. *)
NUM_FINISHED_CLASSES == 2     \* line 429: range(4), narrowed
NUM_ADMINS_PER_DISTRICT == 4  \* line 479: range(4)
NUM_TRIALS == 4               \* line 521: range(4)

(* The inputs of the stand-alone call of arrayOfNumberSelection. *)
MaxSelLength == 3
MaxSelOptions == 4

-----------------------------------------------------------------------------
(* Python values *)

None == "None"
Timestamp == "timestamp"
RunIdLiteral == 0            \* the string 'runId' of lines 524-527: no generated id

TaskOrder == <<"swr", "pa", "sre", "fakeTask">>
TaskIds == {"swr", "pa", "sre", "fakeTask"}

Range(s) == {s[x] : x \in DOMAIN s}

Min(a, b) == IF a < b THEN a ELSE b

\* d[k] = v
Put(d, k, v) == [x \in DOMAIN d \cup {k} |-> IF x = k THEN v ELSE d[x]]

RECURSIVE SortedSeq(_)
SortedSeq(S) ==
    IF S = {} THEN <<>>
    ELSE LET m == CHOOSE x \in S : \A y \in S : x <= y
         IN <<m>> \o SortedSeq(S \ {m})

\* list(d.keys()), or the order of `for k in d`
KeysOf(d) == SortedSeq(DOMAIN d)

\* list(set(xs)): the distinct values of xs.  Python leaves the order open; no
\* loop of the script reads it, and the model lists them in ascending order.
ListSet(xs) == SortedSeq(Range(xs))

\* n fresh ids, the first being `from`
FreshIds(from, cnt) == [x \in 1..cnt |-> from + x - 1]

list_of_doc_ids(from, length) == FreshIds(from, length)

RECURSIVE Shuffles(_)
\* random.shuffle: every order of the keys
Shuffles(S) ==
    IF S = {} THEN {<<>>}
    ELSE UNION {{<<x>> \o p : p \in Shuffles(S \ {x})} : x \in S}

-----------------------------------------------------------------------------
(* helpers for generating data *)

Items(options) == {<<k, options[k]>> : k \in DOMAIN options}

RECURSIVE SelectionLoop(_, _, _)
\* lines 36-39: `left` iterations to go; random.choice of an empty list raises
\* IndexError, which ends the call (and, uncaught, the script)
SelectionLoop(left, options_left, return_array) ==
    IF left = 0 THEN {[raised |-> FALSE, value |-> return_array]}
    ELSE IF options_left = {} THEN {[raised |-> TRUE, value |-> <<>>]}
    ELSE UNION {SelectionLoop(left - 1, options_left \ {selection},
                              Append(return_array, selection))
                    : selection \in options_left}

\* every outcome of arrayOfNumberSelection(arrayLength, options): a list of
\* (key, value) pairs, or the exception
arrayOfNumberSelection(arrayLength, options) ==
    SelectionLoop(arrayLength, Items(options), <<>>)

\* randomGroup with the slice keys[i : i + size + 1]: a chunk runs into the next
randomGroupOverlapping(keys, size) ==
    LET starts == {s \in 0..(Len(keys) - 1) : s % size = 0}
    IN [g \in 1..Cardinality(starts) |->
           SubSeq(keys, (g - 1) * size + 1, Min((g - 1) * size + size + 1, Len(keys)))]

\* the chunks randomGroup yields, given the shuffled keys
randomGroup(keys, size) ==
    LET starts == {s \in 0..(Len(keys) - 1) : s % size = 0}
    IN [g \in 1..Cardinality(starts) |->
           SubSeq(keys, (g - 1) * size + 1, Min((g - 1) * size + size, Len(keys)))]

-----------------------------------------------------------------------------
(* schemas *)

user_userId(userType) == [userType |-> userType, administrations |-> <<>>]

create_assessment(task_id, runId, fresh, finished) ==
    IF finished
    THEN [runId |-> runId, taskId |-> task_id, completedOn |-> Timestamp,
          rewardShown |-> TRUE]
    ELSE [runId |-> fresh, taskId |-> None, completedOn |-> None,
          rewardShown |-> FALSE]

user_administrations(assess, completed) ==
    [completed |-> completed, assessments |-> assess]

user_studentData(schoolId, class, grade, districtId, prevSchools, prevClassesSel) ==
    LET prevDistricts == [x \in DOMAIN prevSchools |-> prevSchools[x][2].districtId]
        prevSchoolIds == [x \in DOMAIN prevSchools |-> prevSchools[x][1]]
        prevClassIds == [x \in DOMAIN prevClassesSel |-> prevClassesSel[x][1]]
    IN [grade |-> grade,
        classId |-> class,
        previousClassIds |-> ListSet(prevClassIds),
        schoolId |-> schoolId,
        previousSchoolIds |-> ListSet(prevSchoolIds),
        districtId |-> districtId,
        previousDistrictIds |-> ListSet(prevDistricts)]

user_educatorData(schoolId, districtId, prevSchools, docIds) ==
    LET prevDistricts == [x \in DOMAIN prevSchools |-> prevSchools[x][2].districtId]
        prevSchoolIds == [x \in DOMAIN prevSchools |-> prevSchools[x][1]]
    IN [previousClassIds |-> docIds,
        schoolId |-> schoolId,
        previousSchoolIds |-> prevSchoolIds,
        districtId |-> districtId,
        previousDistrictIds |-> prevDistricts]

user_careGiverData(studentIds) == [students |-> studentIds]

user_adminData(districtId, schoolList, classList, usersList) ==
    [classes |-> classList, districts |-> districtId, schools |-> schoolList,
     users |-> usersList]

create_district(schoolIds) == [schools |-> schoolIds]

School(districtId) == [districtId |-> districtId, classes |-> <<>>]

classId(schoolId, grade) == [schoolId |-> schoolId, grade |-> grade]

\* administrationId with the school and district lists taken in the other order
administrationIdSwapped(userList, classList, schoolList, districtList, grades, assessment) ==
    [users |-> userList, classes |-> classList, schools |-> districtList,
     districts |-> schoolList, grades |-> grades, assessments |-> assessment]

administrationId(userList, classList, schoolList, districtList, grades, assessment) ==
    [users |-> userList, classes |-> classList, schools |-> schoolList,
     districts |-> districtList, grades |-> grades, assessments |-> assessment]

gse_trial(docId, trialId) == Put(<<>>, docId, [id |-> trialId])

\* gse_run with the run id stored where the variant id belongs
gse_runIdAsVariant(runId, taskId, varientId, completed, trials, class, districtId, schoolId) ==
    [id |-> runId, taskId |-> taskId, varientId |-> runId,
     completed |-> completed, classId |-> class, districtId |-> districtId,
     schoolId |-> schoolId, trials |-> trials]

gse_run(runId, taskId, varientId, completed, trials, class, districtId, schoolId) ==
    [id |-> runId, taskId |-> taskId, varientId |-> varientId,
     completed |-> completed, classId |-> class, districtId |-> districtId,
     schoolId |-> schoolId, trials |-> trials]

gse_user(userId, class, schoolId, districtId, studyList, tasks, variants) ==
    [id |-> userId, classId |-> class, districtId |-> districtId,
     schoolId |-> schoolId, tasks |-> tasks, variants |-> variants, runs |-> <<>>]

-----------------------------------------------------------------------------
\* the script's globals before its first loop (lines 329-368)
Blank ==
    /\ nextId = 1
    /\ i = 1 /\ j = 0 /\ n = 0
    /\ gse_tasks = [t \in TaskIds |-> {}]
    /\ gse_variants = <<>>
    /\ districts = <<>> /\ schools = <<>> /\ classes = <<>> /\ prevClasses = <<>>
    /\ educators = <<>> /\ students = <<>> /\ admins = <<>> /\ caregivers = <<>>
    /\ users = <<>>
    /\ classes_by_school = <<>> /\ student_by_classes = <<>>
    /\ educators_by_school = <<>>
    /\ school = 0
    /\ finishedClasses = <<>>
    /\ gse_users = <<>>
    /\ administrations = <<>> /\ user_admins = <<>>
    /\ group_keys = <<>> /\ group_size = 0
    /\ group = <<>> /\ admin_id = 0 /\ admin_runIds = <<>> /\ admin_trials = <<>>
    /\ assessments = <<>>
    /\ admin_schools = <<>> /\ admin_districts = <<>> /\ admin_grades = <<>>
    /\ admin_users = <<>>
    /\ heap = <<>>

Init ==
    /\ pc = "variants"
    /\ Blank
    /\ sel_length = 0 /\ sel_options = <<>> /\ sel_result = None

-----------------------------------------------------------------------------
(* lines 369-390: one iteration of `for task in gse_tasks` *)
CreateVariants ==
    /\ pc = "variants"
    /\ \E cnt \in VARIANTS_LOW..VARIANTS_HIGH :
          LET task == TaskOrder[i]
              variantIds == FreshIds(nextId, cnt)
          IN /\ gse_variants' = Put(gse_variants, task, variantIds)
             /\ gse_tasks' = [gse_tasks EXCEPT ![task] = @ \cup Range(variantIds)]
             /\ nextId' = nextId + cnt
    /\ IF i < Len(TaskOrder) THEN i' = i + 1 /\ pc' = pc
                             ELSE i' = 1 /\ pc' = "districts"
    /\ UNCHANGED <<j, n, hierarchyVars, peopleVars, users, gse_users, groupVars,
                   adminLocalVars, adminOutVars, selVars>>

(* lines 393-394: one iteration of `for _ in range(NUM_DISTRICTS)` *)
CreateDistrict ==
    /\ pc = "districts"
    /\ i <= NUM_DISTRICTS
    /\ \E cnt \in NUM_SCHOOLS_PER_LOW..NUM_SCHOOLS_PER_HIGH :
          /\ districts' = Put(districts, nextId + cnt,
                              create_district(list_of_doc_ids(nextId, cnt)))
          /\ nextId' = nextId + cnt + 1
    /\ i' = i + 1
    /\ UNCHANGED <<pc, j, n, catalogVars, schools, classes, prevClasses, educators,
                   students, classes_by_school, student_by_classes,
                   educators_by_school, school, finishedClasses, peopleVars, users,
                   gse_users, groupVars, adminLocalVars, adminOutVars, selVars>>

EndDistricts ==
    /\ pc = "districts"
    /\ i > NUM_DISTRICTS
    /\ pc' = "schools" /\ i' = 1
    /\ UNCHANGED <<nextId, j, n, catalogVars, hierarchyVars, peopleVars, users,
                   gse_users, groupVars, adminLocalVars, adminOutVars, selVars>>

RECURSIVE PutSchools(_, _, _)
\* lines 398-399: the inner loop over one district's school ids
PutSchools(d, schoolIds, district) ==
    IF schoolIds = <<>> THEN d
    ELSE PutSchools(Put(d, Head(schoolIds), School(district)), Tail(schoolIds), district)

(* lines 397-399: one iteration of `for district in districts` *)
CreateSchools ==
    /\ pc = "schools"
    /\ i <= Len(KeysOf(districts))
    /\ LET district == KeysOf(districts)[i]
       IN schools' = PutSchools(schools, districts[district].schools, district)
    /\ i' = i + 1
    /\ UNCHANGED <<pc, nextId, j, n, catalogVars, districts, classes, prevClasses,
                   educators, students, classes_by_school, student_by_classes,
                   educators_by_school, school, finishedClasses, peopleVars, users,
                   gse_users, groupVars, adminLocalVars, adminOutVars, selVars>>

EndSchools ==
    /\ pc = "schools"
    /\ i > Len(KeysOf(districts))
    /\ pc' = "school_loop" /\ i' = 1
    /\ UNCHANGED <<nextId, j, n, catalogVars, hierarchyVars, peopleVars, users,
                   gse_users, groupVars, adminLocalVars, adminOutVars, selVars>>

(* lines 404-407: `for school in schools` binds the next school and draws the
   number of educators *)
BeginSchool ==
    /\ pc = "school_loop"
    /\ i <= Len(KeysOf(schools))
    /\ school' = KeysOf(schools)[i]
    /\ educators_by_school' = Put(educators_by_school, school', <<>>)
    /\ \E cnt \in NUM_EDUCATORS_PER_LOW..NUM_EDUCATORS_PER_HIGH : n' = cnt
    /\ j' = 0
    /\ pc' = "educators"
    /\ UNCHANGED <<nextId, i, catalogVars, districts, schools, classes, prevClasses,
                   educators, students, classes_by_school, student_by_classes,
                   finishedClasses, peopleVars, users, gse_users, groupVars,
                   adminLocalVars, adminOutVars, selVars>>

(* lines 408-418: one educator *)
CreateEducator ==
    /\ pc = "educators"
    /\ j < n
    /\ \E k \in EDU_PREV_SCHOOLS_LOW..EDU_PREV_SCHOOLS_HIGH,
          cnt \in EDU_PREV_CLASSES_LOW..EDU_PREV_CLASSES_HIGH :
          \E prevSchools \in arrayOfNumberSelection(k, schools) :
             IF prevSchools.raised
             THEN /\ pc' = "crashed"
                  /\ nextId' = nextId + 1
                  /\ UNCHANGED <<j, educators, users, educators_by_school>>
             ELSE LET educatorKey == nextId
                      educatorObj ==
                          user_educatorData(school, schools[school].districtId,
                                            prevSchools.value,
                                            list_of_doc_ids(nextId + 1, cnt))
                  IN /\ educators' = Put(educators, educatorKey, educatorObj)
                     /\ users' = Put(users, educatorKey, user_userId("educator"))
                     /\ educators_by_school' =
                            [educators_by_school EXCEPT ![school] = Append(@, educatorKey)]
                     /\ nextId' = nextId + 1 + cnt
                     /\ j' = j + 1
                     /\ pc' = pc
    /\ UNCHANGED <<i, n, catalogVars, districts, schools, classes, prevClasses,
                   students, classes_by_school, student_by_classes, school,
                   finishedClasses, peopleVars, gse_users, groupVars, adminLocalVars,
                   adminOutVars, selVars>>

(* lines 421-422: `for educator in educators` starts over the whole dict *)
BeginClasses ==
    /\ pc = "educators"
    /\ j = n
    /\ classes_by_school' = Put(classes_by_school, school, <<>>)
    /\ n' = Len(KeysOf(educators))
    /\ j' = 0
    /\ pc' = "classes"
    /\ UNCHANGED <<nextId, i, catalogVars, districts, schools, classes, prevClasses,
                   educators, students, student_by_classes, educators_by_school,
                   school, finishedClasses, peopleVars, users, gse_users, groupVars,
                   adminLocalVars, adminOutVars, selVars>>

(* lines 423-432: one class, and the previous classes made with it *)
CreateClass ==
    /\ pc = "classes"
    /\ j < n
    /\ \E grade \in GRADE_LOW..GRADE_HIGH :
          LET newClassId == nextId
              finishedIds == FreshIds(nextId + 1, NUM_FINISHED_CLASSES)
          IN /\ classes' = Put(classes, newClassId, classId(school, grade))
             /\ classes_by_school' =
                    [classes_by_school EXCEPT ![school] = Append(@, newClassId)]
             \* the grade of a finished class is never read
             /\ finishedClasses' = [c \in Range(finishedIds) |-> [schoolId |-> school]]
             /\ prevClasses' = Put(prevClasses, school, finishedClasses')
             /\ nextId' = nextId + 1 + NUM_FINISHED_CLASSES
    /\ j' = j + 1
    /\ UNCHANGED <<pc, i, n, catalogVars, districts, schools, educators, students,
                   student_by_classes, educators_by_school, school, peopleVars,
                   users, gse_users, groupVars, adminLocalVars, adminOutVars, selVars>>

EndClasses ==
    /\ pc = "classes"
    /\ j = n
    /\ i' = i + 1
    /\ pc' = "school_loop"
    /\ UNCHANGED <<nextId, j, n, catalogVars, hierarchyVars, peopleVars, users,
                   gse_users, groupVars, adminLocalVars, adminOutVars, selVars>>

EndSchoolLoop ==
    /\ pc = "school_loop"
    /\ i > Len(KeysOf(schools))
    /\ pc' = "students" /\ i' = 1
    /\ UNCHANGED <<nextId, j, n, catalogVars, hierarchyVars, peopleVars, users,
                   gse_users, groupVars, adminLocalVars, adminOutVars, selVars>>

(* lines 435-437: `for x in classes` binds the next class and draws the number
   of students *)
BeginClassStudents ==
    /\ pc = "students"
    /\ i <= Len(KeysOf(classes))
    /\ student_by_classes' = Put(student_by_classes, KeysOf(classes)[i], <<>>)
    /\ \E cnt \in NUM_STUDENTS_PER_LOW..NUM_STUDENTS_PER_HIGH : n' = cnt
    /\ j' = 0
    /\ pc' = "student"
    /\ UNCHANGED <<nextId, i, catalogVars, districts, schools, classes, prevClasses,
                   educators, students, classes_by_school, educators_by_school,
                   school, finishedClasses, peopleVars, users, gse_users, groupVars,
                   adminLocalVars, adminOutVars, selVars>>

(* lines 438-466: one student of class x; `school` and `finishedClasses` are
   whatever the school loop left in them *)
CreateStudent ==
    /\ pc = "student"
    /\ j < n
    /\ \E k1 \in STU_PREV_SCHOOLS_LOW..STU_PREV_SCHOOLS_HIGH,
          k2 \in STU_PREV_CLASSES_LOW..STU_PREV_CLASSES_HIGH :
          \E prevSchools \in arrayOfNumberSelection(k1, schools),
             prevSel \in arrayOfNumberSelection(k2, finishedClasses) :
             IF prevSchools.raised \/ prevSel.raised
             THEN /\ pc' = "crashed"
                  /\ nextId' = nextId + 1
                  /\ UNCHANGED <<j, students, gse_users, student_by_classes, users>>
             ELSE LET x == KeysOf(classes)[i]
                      studentKey == nextId
                      newStudent ==
                          user_studentData(school, x, classes[x].grade,
                                           schools[school].districtId,
                                           prevSchools.value, prevSel.value)
                  IN /\ students' = Put(students, studentKey, newStudent)
                     /\ gse_users' =
                            Put(gse_users, studentKey,
                                gse_user(studentKey, x, school,
                                         schools[school].districtId, <<>>,
                                         "never ran", <<>>))
                     /\ student_by_classes' =
                            [student_by_classes EXCEPT ![x] = Append(@, studentKey)]
                     /\ users' = Put(users, studentKey, user_userId("student"))
                     /\ nextId' = nextId + 1
                     /\ j' = j + 1
                     /\ pc' = pc
    /\ UNCHANGED <<i, n, catalogVars, districts, schools, classes, prevClasses,
                   educators, classes_by_school, educators_by_school, school,
                   finishedClasses, peopleVars, groupVars, adminLocalVars,
                   adminOutVars, selVars>>

EndClassStudents ==
    /\ pc = "student"
    /\ j = n
    /\ i' = i + 1
    /\ pc' = "students"
    /\ UNCHANGED <<nextId, j, n, catalogVars, hierarchyVars, peopleVars, users,
                   gse_users, groupVars, adminLocalVars, adminOutVars, selVars>>

EndStudents ==
    /\ pc = "students"
    /\ i > Len(KeysOf(classes))
    /\ pc' = "admins" /\ i' = 1
    /\ UNCHANGED <<nextId, j, n, catalogVars, hierarchyVars, peopleVars, users,
                   gse_users, groupVars, adminLocalVars, adminOutVars, selVars>>

-----------------------------------------------------------------------------
RECURSIVE ConcatOver(_, _)
\* the lists f[k], for k along ks, one after the other
ConcatOver(ks, f) ==
    IF ks = <<>> THEN <<>> ELSE f[Head(ks)] \o ConcatOver(Tail(ks), f)

RECURSIVE DistrictUsers(_)
\* lines 474-478, along the district's schools: the school's educators, then the
\* students of each of its classes (each entry is the dict {id: True}; the id
\* stands for it)
DistrictUsers(schoolIds) ==
    IF schoolIds = <<>> THEN <<>>
    ELSE educators_by_school[Head(schoolIds)]
         \o ConcatOver(classes_by_school[Head(schoolIds)], student_by_classes)
         \o DistrictUsers(Tail(schoolIds))

(* lines 469-487: the administrators of one district *)
CreateAdministrators ==
    /\ pc = "admins"
    /\ i <= Len(KeysOf(districts))
    /\ LET district == KeysOf(districts)[i]
           schoolIds == districts[district].schools
           admin_classes == ConcatOver(schoolIds, classes_by_school)
           adminKeys == Range(FreshIds(nextId, NUM_ADMINS_PER_DISTRICT))
       IN /\ admin_users' = DistrictUsers(schoolIds)
          /\ admins' = [k \in DOMAIN admins \cup adminKeys |->
                           IF k \in adminKeys
                           THEN user_adminData(district, schoolIds, admin_classes,
                                               admin_users')
                           ELSE admins[k]]
          /\ users' = [k \in DOMAIN users \cup adminKeys |->
                          IF k \in adminKeys THEN user_userId("admin") ELSE users[k]]
          /\ school' = IF schoolIds = <<>> THEN school ELSE schoolIds[Len(schoolIds)]
    /\ nextId' = nextId + NUM_ADMINS_PER_DISTRICT
    /\ i' = i + 1
    /\ UNCHANGED <<pc, j, n, catalogVars, districts, schools, classes, prevClasses,
                   educators, students, classes_by_school, student_by_classes,
                   educators_by_school, finishedClasses, caregivers, gse_users,
                   groupVars, group, admin_id, admin_runIds, admin_trials,
                   assessments, admin_schools, admin_districts, admin_grades,
                   adminOutVars, selVars>>

EndAdministrators ==
    /\ pc = "admins"
    /\ i > Len(KeysOf(districts))
    /\ pc' = "caregivers" /\ i' = 1
    /\ UNCHANGED <<nextId, j, n, catalogVars, hierarchyVars, peopleVars, users,
                   gse_users, groupVars, adminLocalVars, adminOutVars, selVars>>

(* lines 491-497: the caregiver of one student *)
CreateCaregiver ==
    /\ pc = "caregivers"
    /\ i <= Len(KeysOf(students))
    /\ LET student == KeysOf(students)[i]
           caregiverKey == nextId
       IN /\ caregivers' = Put(caregivers, caregiverKey, user_careGiverData(<<student>>))
          /\ users' = Put(users, caregiverKey, user_userId("caregiver"))
    /\ nextId' = nextId + 1
    /\ i' = i + 1
    /\ UNCHANGED <<pc, j, n, catalogVars, hierarchyVars, admins, gse_users, groupVars,
                   adminLocalVars, adminOutVars, selVars>>

EndCaregivers ==
    /\ pc = "caregivers"
    /\ i > Len(KeysOf(students))
    /\ pc' = "grouping" /\ i' = 1
    /\ UNCHANGED <<nextId, j, n, catalogVars, hierarchyVars, peopleVars, users,
                   gse_users, groupVars, adminLocalVars, adminOutVars, selVars>>

-----------------------------------------------------------------------------
(* line 500 and lines 56-57: the group size is drawn and the keys are shuffled *)
StartGroups ==
    /\ pc = "grouping"
    /\ \E size \in GROUP_SIZE_LOW..GROUP_SIZE_HIGH : group_size' = size
    /\ \E keys \in Shuffles(DOMAIN classes) : group_keys' = keys
    /\ i' = 1
    /\ pc' = "administration"
    /\ UNCHANGED <<nextId, j, n, catalogVars, hierarchyVars, peopleVars, users,
                   gse_users, adminLocalVars, adminOutVars, selVars>>

RECURSIVE TrialsLoop(_, _, _, _)
\* lines 521-523 for one run: iterations q..NUM_TRIALS, each drawing a trial id
\* and then, in gse_trial, a document id
TrialsLoop(trials, run, q, from) ==
    IF q > NUM_TRIALS THEN trials
    ELSE TrialsLoop(Put(trials, run, gse_trial(from + 1, from)), run, q + 1, from + 2)

RECURSIVE RunsLoop(_, _, _)
\* lines 520-523: `for run in admin_runIds`, runs r..4
RunsLoop(trials, r, from) ==
    IF r > Len(TaskOrder) THEN trials
    ELSE RunsLoop(TrialsLoop(trials, TaskOrder[r], 1, from), r + 1,
                  from + 2 * NUM_TRIALS)

(* lines 500-536: the next group is taken from randomGroup; the administration's
   variants, trials and assessment dicts are made and its data gathered *)
BeginAdministration ==
    /\ pc = "administration"
    /\ i <= Len(randomGroup(group_keys, group_size))
    /\ group' = randomGroup(group_keys, group_size)[i]
    /\ admin_id' = nextId
    /\ \E vs \in Range(gse_variants["swr"]), vp \in Range(gse_variants["pa"]),
          vr \in Range(gse_variants["sre"]), vf \in Range(gse_variants["fakeTask"]) :
          admin_runIds' =
              [swr |-> [taskId |-> "swr", variant |-> vs],
               pa |-> [taskId |-> "pa", variant |-> vp],
               sre |-> [taskId |-> "sre", variant |-> vr],
               fakeTask |-> [taskId |-> "fakeTask", variant |-> vf]]
    /\ admin_trials' = RunsLoop(<<>>, 1, nextId + 1)
    /\ LET sreId == nextId + 1 + 2 * NUM_TRIALS * Len(TaskOrder)
           swr_run == create_assessment("swr", RunIdLiteral, 0, TRUE)
           pa_run == create_assessment("pa", RunIdLiteral, 0, TRUE)
           sre_run == create_assessment("sre", RunIdLiteral, sreId, FALSE)
           fake_run == create_assessment("fakeTask", RunIdLiteral, 0, TRUE)
       IN /\ heap' = [a \in DOMAIN heap \cup {<<admin_id', t>> : t \in TaskIds} |->
                         IF a = <<admin_id', "swr">> THEN swr_run
                         ELSE IF a = <<admin_id', "pa">> THEN pa_run
                         ELSE IF a = <<admin_id', "sre">> THEN sre_run
                         ELSE IF a = <<admin_id', "fakeTask">> THEN fake_run
                         ELSE heap[a]]
          /\ nextId' = sreId + 1
    /\ assessments' = [t \in TaskIds |-> <<admin_id', t>>]
    /\ admin_schools' = [x \in DOMAIN group' |-> classes[group'[x]].schoolId]
    /\ admin_districts' =
           [x \in DOMAIN group' |-> schools[classes[group'[x]].schoolId].districtId]
    /\ admin_grades' = [x \in DOMAIN group' |-> classes[group'[x]].grade]
    /\ admin_users' = ConcatOver(group', student_by_classes)
    /\ j' = 1
    /\ pc' = "user_admin"
    /\ UNCHANGED <<i, n, catalogVars, hierarchyVars, peopleVars, users, gse_users,
                   groupVars, administrations, user_admins, selVars>>

\* line 569 without the test: every run is stored as completed
gse_run_completedAlways(assessment) == TRUE

\* line 569
gse_run_completed(assessment) == assessment.completedOn # None

(* lines 538-583: the progress record and the four runs of one user *)
AdministerUser ==
    /\ pc = "user_admin"
    /\ j <= Len(admin_users)
    /\ LET user == admin_users[j]
           runIds == FreshIds(nextId, Len(TaskOrder))
           runIdOf == [q \in 1..Len(TaskOrder) |-> <<TaskOrder[q], runIds[q]>>]
           gse_user_class == students[user].classId
           gse_user_school == classes[gse_user_class].schoolId
           gse_user_district == schools[gse_user_school].districtId
           newRun(q) ==
               gse_run(runIds[q], TaskOrder[q], admin_runIds[TaskOrder[q]].variant,
                       gse_run_completed(heap[assessments[TaskOrder[q]]]),
                       admin_trials[TaskOrder[q]], gse_user_class,
                       gse_user_district, gse_user_school)
           taskAt(a) == CHOOSE q \in 1..Len(TaskOrder) : runIdOf[q][1] = a[2]
       IN /\ user_admins' =
                 Put(user_admins, user,
                     Put(<<>>, admin_id,
                         user_administrations(
                             [swr |-> <<admin_id, "swr">>, pa |-> <<admin_id, "pa">>,
                              sre |-> <<admin_id, "sre">>,
                              fakeTask |-> <<admin_id, "fakeTask">>],
                             FALSE)))
          /\ gse_users' =
                 [gse_users EXCEPT
                     ![user].tasks = TaskOrder,
                     ![user].variants =
                         [q \in 1..Len(TaskOrder) |-> admin_runIds[TaskOrder[q]].variant],
                     ![user].runs =
                         [r \in DOMAIN @ \cup Range(runIds) |->
                             IF r \in Range(runIds)
                             THEN newRun(CHOOSE q \in 1..Len(TaskOrder) : runIds[q] = r)
                             ELSE @[r]]]
          \* line 581: the write goes through the user's record to the dict it shares
          /\ heap' =
                 LET written == {user_admins'[user][admin_id].assessments[t] : t \in TaskIds}
                 IN [a \in DOMAIN heap |->
                        IF a \in written
                        THEN [heap[a] EXCEPT !.runId = runIds[taskAt(a)]]
                        ELSE heap[a]]
    /\ nextId' = nextId + Len(TaskOrder)
    /\ j' = j + 1
    /\ UNCHANGED <<pc, i, n, catalogVars, hierarchyVars, peopleVars, users, groupVars,
                   adminLocalVars, administrations, selVars>>

(* lines 586-593: the administration of the group is stored *)
FinishAdministration ==
    /\ pc = "user_admin"
    /\ j > Len(admin_users)
    /\ administrations' =
           Put(administrations, admin_id,
               administrationId(admin_users, group, ListSet(admin_schools),
                                ListSet(admin_districts), ListSet(admin_grades),
                                admin_runIds))
    /\ i' = i + 1
    /\ pc' = "administration"
    /\ UNCHANGED <<nextId, j, n, catalogVars, hierarchyVars, peopleVars, users,
                   gse_users, groupVars, adminLocalVars, user_admins, heap, selVars>>

EndAdministrations ==
    /\ pc = "administration"
    /\ i > Len(randomGroup(group_keys, group_size))
    /\ pc' = "attach" /\ i' = 1
    /\ UNCHANGED <<nextId, j, n, catalogVars, hierarchyVars, peopleVars, users,
                   gse_users, groupVars, adminLocalVars, adminOutVars, selVars>>

(* lines 601-607: the sub-collections are attached to the users and the schools *)
AttachSubCollections ==
    /\ pc = "attach"
    /\ users' = [u \in DOMAIN users |->
                    IF u \in DOMAIN user_admins
                    THEN [users[u] EXCEPT !.administrations = user_admins[u]]
                    ELSE users[u]]
    /\ schools' = [s \in DOMAIN schools |->
                      IF s \in DOMAIN classes_by_school
                      THEN [schools[s] EXCEPT
                               !.classes = [c \in Range(classes_by_school[s]) |-> classes[c]]]
                      ELSE schools[s]]
    /\ school' = IF classes_by_school = <<>> THEN school
                 ELSE KeysOf(classes_by_school)[Len(KeysOf(classes_by_school))]
    /\ pc' = "done"
    /\ UNCHANGED <<nextId, i, j, n, catalogVars, districts, classes, prevClasses,
                   educators, students, classes_by_school, student_by_classes,
                   educators_by_school, finishedClasses, peopleVars, gse_users,
                   groupVars, adminLocalVars, adminOutVars, selVars>>

Next ==
    \/ CreateVariants
    \/ CreateDistrict \/ EndDistricts
    \/ CreateSchools \/ EndSchools
    \/ BeginSchool \/ CreateEducator \/ BeginClasses \/ CreateClass \/ EndClasses
    \/ EndSchoolLoop
    \/ BeginClassStudents \/ CreateStudent \/ EndClassStudents \/ EndStudents
    \/ CreateAdministrators \/ EndAdministrators
    \/ CreateCaregiver \/ EndCaregivers
    \/ StartGroups \/ BeginAdministration \/ AdministerUser \/ FinishAdministration
    \/ EndAdministrations
    \/ AttachSubCollections

Spec == Init /\ [][Next]_vars

-----------------------------------------------------------------------------
(* arrayOfNumberSelection called on its own, on any mapping of up to
   MaxSelOptions entries *)
InitSel ==
    /\ pc = "sel"
    /\ Blank
    /\ sel_length \in 0..MaxSelLength
    /\ sel_options \in {[k \in S |-> School(0)] : S \in SUBSET (1..MaxSelOptions)}
    /\ sel_result = None

Select ==
    /\ pc = "sel"
    /\ sel_result' \in arrayOfNumberSelection(sel_length, sel_options)
    /\ pc' = "sel_done"
    /\ UNCHANGED <<nextId, i, j, n, catalogVars, hierarchyVars, peopleVars, users,
                   gse_users, groupVars, adminLocalVars, adminOutVars, sel_length,
                   sel_options>>

NextSel == Select

SpecSel == InitSel /\ [][NextSel]_vars

-----------------------------------------------------------------------------
(* Properties *)

NoDuplicates(xs) == \A a, b \in DOMAIN xs : a # b => xs[a] # xs[b]

Resolves(ids, collection) == Range(ids) \subseteq DOMAIN collection

\* the assessment dict a user's progress record holds for a task
ProgressRecord(u, a, t) == heap[users[u].administrations[a].assessments[t]]

\* C1: after a complete run every id in a reference field is a key of the
\* collection it refers to.
ReferentialClosure ==
    pc = "done" =>
        /\ \A d \in DOMAIN districts : Resolves(districts[d].schools, schools)
        /\ \A c \in DOMAIN classes : classes[c].schoolId \in DOMAIN schools
        /\ \A s \in DOMAIN schools : schools[s].districtId \in DOMAIN districts
        /\ \A s \in DOMAIN students :
              /\ students[s].classId \in DOMAIN classes
              /\ students[s].schoolId \in DOMAIN schools
              /\ students[s].districtId \in DOMAIN districts
              /\ Resolves(students[s].previousClassIds, classes)
              /\ Resolves(students[s].previousSchoolIds, schools)
              /\ Resolves(students[s].previousDistrictIds, districts)
        /\ \A e \in DOMAIN educators :
              /\ educators[e].schoolId \in DOMAIN schools
              /\ educators[e].districtId \in DOMAIN districts
              /\ Resolves(educators[e].previousSchoolIds, schools)
              /\ Resolves(educators[e].previousDistrictIds, districts)
              /\ Resolves(educators[e].previousClassIds, classes)
        /\ \A c \in DOMAIN caregivers : Resolves(caregivers[c].students, users)
        /\ \A a \in DOMAIN admins :
              /\ admins[a].districts \in DOMAIN districts
              /\ Resolves(admins[a].schools, schools)
              /\ Resolves(admins[a].classes, classes)
              /\ Resolves(admins[a].users, users)
        /\ \A a \in DOMAIN administrations :
              /\ Resolves(administrations[a].users, users)
              /\ Resolves(administrations[a].classes, classes)
              /\ Resolves(administrations[a].schools, schools)
              /\ Resolves(administrations[a].districts, districts)

\* C2: the school of a student's class is the student's school, and the district
\* of that school is the student's district.
StudentIdsConsistent ==
    \A s \in DOMAIN students :
        /\ classes[students[s].classId].schoolId = students[s].schoolId
        /\ schools[students[s].schoolId].districtId = students[s].districtId

\* C3: asked for more entries than the mapping holds, arrayOfNumberSelection
\* returns all of them, each once, and raises nothing.
SamplingTruncates ==
    (pc = "sel_done" /\ Cardinality(DOMAIN sel_options) < sel_length) =>
        /\ ~sel_result.raised
        /\ Len(sel_result.value) = Cardinality(DOMAIN sel_options)
        /\ NoDuplicates(sel_result.value)

\* C4: no previous-ids list of a student or an educator holds a value twice.
PreviousIdsDistinct ==
    /\ \A s \in DOMAIN students :
          /\ NoDuplicates(students[s].previousSchoolIds)
          /\ NoDuplicates(students[s].previousClassIds)
          /\ NoDuplicates(students[s].previousDistrictIds)
    /\ \A e \in DOMAIN educators :
          /\ NoDuplicates(educators[e].previousSchoolIds)
          /\ NoDuplicates(educators[e].previousClassIds)
          /\ NoDuplicates(educators[e].previousDistrictIds)

\* C5: an administration lists the classes of its group, the students of those
\* classes, and the schools, districts and grades of those classes, each once.
AdministrationGathersGroup ==
    \A a \in DOMAIN administrations :
        LET adm == administrations[a]
            G == Range(adm.classes)
        IN /\ a = admin_id => adm.classes = group
           /\ Range(adm.users) = {s \in DOMAIN students : students[s].classId \in G}
           /\ Range(adm.schools) = {classes[c].schoolId : c \in G}
           /\ Range(adm.districts) = {schools[classes[c].schoolId].districtId : c \in G}
           /\ Range(adm.grades) = {classes[c].grade : c \in G}
           /\ NoDuplicates(adm.classes) /\ NoDuplicates(adm.users)
           /\ NoDuplicates(adm.schools) /\ NoDuplicates(adm.districts)
           /\ NoDuplicates(adm.grades)

\* an administration of two classes of one school and one grade has been stored
AdministrationGathersGroupWitness ==
    \E a \in DOMAIN administrations :
        /\ Len(administrations[a].classes) = 2
        /\ Len(administrations[a].users) = 2
        /\ Len(administrations[a].schools) = 1
        /\ Len(administrations[a].grades) = 1

\* C6: after generation every student's engine-side record holds four runs, one
\* per task, each with the variant the student's administration chose for the
\* task, which is a key of the task's variants.
FourRunsWithChosenVariant ==
    pc \in {"attach", "done"} =>
        \A u \in DOMAIN students :
            LET runs == gse_users[u].runs
            IN /\ Cardinality(DOMAIN runs) = 4
               /\ \A t \in TaskIds : Cardinality({r \in DOMAIN runs : runs[r].taskId = t}) = 1
               /\ \E a \in DOMAIN administrations : u \in Range(administrations[a].users)
               /\ \A r \in DOMAIN runs, a \in DOMAIN administrations :
                     u \in Range(administrations[a].users) =>
                        /\ runs[r].varientId =
                               administrations[a].assessments[runs[r].taskId].variant
                        /\ runs[r].varientId \in gse_tasks[runs[r].taskId]

\* generation ended with two administrations that chose different variants of swr
FourRunsWithChosenVariantWitness ==
    /\ pc = "done"
    /\ \E a, b \in DOMAIN administrations :
          /\ administrations[a].assessments["swr"].variant
                 # administrations[b].assessments["swr"].variant
          /\ \E u \in Range(administrations[a].users) : \E r \in DOMAIN gse_users[u].runs :
                /\ gse_users[u].runs[r].taskId = "swr"
                /\ gse_users[u].runs[r].varientId
                       = administrations[a].assessments["swr"].variant

\* C7: the trials sub-collection of every run holds four trials.
FourTrialsPerRun ==
    \A u \in DOMAIN gse_users : \A r \in DOMAIN gse_users[u].runs :
        Cardinality(DOMAIN gse_users[u].runs[r].trials) = 4

\* C8: a run is completed exactly when the assessment of its task in the
\* student's progress record has a completedOn; the sre run is not, the others are.
CompletionConsistent ==
    \A u \in DOMAIN gse_users : \A r \in DOMAIN gse_users[u].runs :
        LET run == gse_users[u].runs[r]
        IN /\ u \in DOMAIN user_admins
           /\ \A a \in DOMAIN user_admins[u] :
                 run.completed
                     = (heap[user_admins[u][a].assessments[run.taskId]].completedOn # None)
           /\ run.taskId = "sre" => ~run.completed
           /\ run.taskId \in {"swr", "pa", "fakeTask"} => run.completed

\* a student holds an sre run that is not completed and an swr run that is
CompletionConsistentWitness ==
    \E u \in DOMAIN gse_users :
        \E r1, r2 \in DOMAIN gse_users[u].runs :
            /\ gse_users[u].runs[r1].taskId = "sre" /\ ~gse_users[u].runs[r1].completed
            /\ gse_users[u].runs[r2].taskId = "swr" /\ gse_users[u].runs[r2].completed

\* C9: the groups of randomGroup are non-empty, disjoint and cover the classes,
\* all of the drawn size but the last, which holds 1..size; so every class is in
\* one administration and every student has one progress record.
GroupsPartitionClasses ==
    /\ pc \in {"administration", "user_admin", "attach", "done"} =>
          LET gs == randomGroup(group_keys, group_size)
          IN /\ \A g \in DOMAIN gs : gs[g] # <<>> /\ NoDuplicates(gs[g])
             /\ \A g, h \in DOMAIN gs : g # h => Range(gs[g]) \cap Range(gs[h]) = {}
             /\ UNION {Range(gs[g]) : g \in DOMAIN gs} = DOMAIN classes
             /\ \A g \in DOMAIN gs : g < Len(gs) => Len(gs[g]) = group_size
             /\ Len(gs) >= 1
             /\ Len(gs[Len(gs)]) \in 1..group_size
    /\ pc \in {"attach", "done"} =>
          /\ \A c \in DOMAIN classes :
                Cardinality({a \in DOMAIN administrations :
                                c \in Range(administrations[a].classes)}) = 1
          /\ \A s \in DOMAIN students :
                /\ s \in DOMAIN user_admins
                /\ Cardinality(DOMAIN user_admins[s]) = 1
    /\ pc = "done" =>
          \A s \in DOMAIN students : Cardinality(DOMAIN users[s].administrations) = 1

\* generation ended after two groups, the last shorter than the drawn size
GroupsPartitionClassesWitness ==
    /\ pc = "done"
    /\ Len(randomGroup(group_keys, group_size)) = 2
    /\ Len(randomGroup(group_keys, group_size)[2]) < group_size
    /\ Cardinality(DOMAIN administrations) = 2

\* C10: the runId a student's progress record holds for a task is the id of a
\* run of that task under the student's own engine-side record.
RunIdsAreOwnRuns ==
    pc = "done" =>
        \A u \in DOMAIN students, t \in TaskIds :
            \A a \in DOMAIN users[u].administrations :
                LET runId == ProgressRecord(u, a, t).runId
                IN /\ runId \in DOMAIN gse_users[u].runs
                   /\ gse_users[u].runs[runId].taskId = t

\* C11: after generation the classes sub-collection of every school holds as many
\* classes as educators were created for that school.
ClassesMatchEducators ==
    pc = "done" =>
        \A s \in DOMAIN schools :
            Cardinality(DOMAIN schools[s].classes) = Len(educators_by_school[s])

====
